---- MODULE Spec2Model ----
(***************************************************************************)
(* Model of zuy.spectrum: the peak detector detect_peaks                   *)
(* (src/src/zuy/spectrum/detect_peaks.py) and the in-place baseline        *)
(* correction ProcessMixin.baseline_correction                             *)
(* (src/src/zuy/spectrum/emsa.py, src/src/zuy/spectrum/baseline.py).       *)
(*                                                                         *)
(* float64 samples are pairs <<kind, value>>: <<"fin", n>> a finite value, *)
(* <<"inf", 1>> and <<"inf", -1>> the two infinities, <<"nan", 0>> NaN.    *)
(* numpy arrays are sequences; positions are the 0-based numpy indices, so *)
(* position i of array a is a[i + 1].                                      *)
(***************************************************************************)
EXTENDS Integers, Sequences, FiniteSets, TLC

\* ------------------------------------------------------------------ bounds
\* longest signal handed to detect_peaks
MaxLen == 5
\* longest impulse signal handed to detect_peaks
MaxImpulseLen == 7
\* most impulses in an impulse signal
MaxImpulses == 3
\* impulse heights are 1 .. MaxVal
MaxVal == 2
\* longest signal with NaN or infinite samples handed to detect_peaks
MaxNonFiniteLen == 4
\* longest signal handed to the arPLS variants
MaxArLen == 4
\* largest iteration cap handed to the arPLS variants
MaxArIter == 3
\* most lines of a parsed file
MaxLines == 4
\* longest x or y array a Spectrum is constructed from
MaxSpectrumLen == 3
\* longest array handed to smooth
MaxSmoothLen == 3
\* largest window size handed to smooth
MaxWindow == 3
\* longest spectrum handed to baseline_correction
MaxBaselineLen == 3
\* largest niter handed to baseline_correction
MaxIter == 2
\* most tokens in a file name handed to parse_img_name
MaxTokens == 7

\* ------------------------------------------------------------ float64 model
Fin(n) == <<"fin", n>>
NaN == <<"nan", 0>>
PInf == <<"inf", 1>>
NInf == <<"inf", -1>>

IsNan(a) == a[1] = "nan"
IsFinite(a) == a[1] = "fin"

\* unary minus
Neg(a) == IF IsNan(a) THEN a ELSE <<a[1], 0 - a[2]>>

\* a - b
Sub(a, b) ==
    IF IsNan(a) \/ IsNan(b) THEN NaN
    ELSE IF a[1] = "inf" THEN (IF b = a THEN NaN ELSE a)
    ELSE IF b[1] = "inf" THEN Neg(b)
    ELSE Fin(a[2] - b[2])

\* a + b
Add(a, b) == Sub(a, Neg(b))

\* a < b; every comparison with NaN is false
Lt(a, b) ==
    /\ ~IsNan(a)
    /\ ~IsNan(b)
    /\ \/ a = NInf /\ b # NInf
       \/ b = PInf /\ a # PInf
       \/ IsFinite(a) /\ IsFinite(b) /\ a[2] < b[2]

Le(a, b) == Lt(a, b) \/ (~IsNan(a) /\ a = b)
Gt(a, b) == Lt(b, a)
Ge(a, b) == Le(b, a)

\* np.minimum: NaN if either operand is NaN
Minimum(a, b) == IF IsNan(a) \/ IsNan(b) THEN NaN ELSE IF Lt(b, a) THEN b ELSE a

\* element at numpy position i
At(a, i) == a[i + 1]

\* ------------------------------------------------------------ array helpers
\* the ascending sequence of the elements of a finite set of integers
RECURSIVE Ascending(_)
Ascending(S) ==
    IF S = {} THEN <<>>
    ELSE LET m == CHOOSE v \in S : \A w \in S : v <= w
         IN <<m>> \o Ascending(S \ {m})

Elems(s) == {s[k] : k \in DOMAIN s}

\* a[keep]: the elements of s whose position k satisfies keep[k]
Compress(s, keep) ==
    LET F[k \in 0..Len(s)] ==
            IF k = 0 THEN <<>>
            ELSE IF keep[k] THEN Append(F[k - 1], s[k]) ELSE F[k - 1]
    IN F[Len(s)]

\* --------------------------------------------------------------- the state
VARIABLES
    pc,         \* position in the running call
    signal,     \* the caller's array (argument x of detect_peaks, self.y of a spectrum)
    x,          \* detect_peaks: the local array x
    x_base,     \* "own" if x is an array of its own, "caller" if it is the caller's array
    mph, mpd, threshold, edge, kpsh, valley,    \* detect_peaks: the parameters
    indnan,     \* detect_peaks: positions of NaN samples
    ind,        \* detect_peaks: the candidate positions
    idel,       \* detect_peaks: removal marks of the minimum-distance loop
    i,          \* detect_peaks: loop index of the minimum-distance loop
    ret,        \* detect_peaks: the value returned
    self_y,     \* the field y of the spectrum baseline_correction is called on
    self_xm,    \* the fields x and metadata of the spectrum an in-place method
                \* (baseline_correction, smooth) is called on
    bc,         \* baseline_correction: its arguments niter and y_offset and the locals
                \* of baseline_subtract_classic (D, w, z, the loop count it, corr)
    ar,         \* baseline_subtract_arpls and baseline_subtract_arpls_cholesky, called
                \* with the same arguments: the arguments and the locals of each
    sm,         \* smooth (processing.smooth or ProcessMixin.smooth): the window size,
                \* the array y (the argument, or the field self.y) and the outcome
    sp,         \* the construction of a Spectrum: the way it is reached, the arrays it
                \* is given, and the Spectrum values constructed
    msa,        \* parse_msa_file: the lines of the file, the line being read and the
                \* locals of the parser
    img         \* parse_img_name: the file name, the locals and the outcome

params == <<mph, mpd, threshold, edge, kpsh, valley>>
peakVars == <<signal, x, x_base, mph, mpd, threshold, edge, kpsh, valley,
              indnan, ind, idel, i, ret>>
baseVars == <<self_y, self_xm, bc>>
restVars == <<ar, sm, sp, msa, img>>
exceptAr == <<pc, peakVars, baseVars, sm, sp, msa, img>>
exceptSm == <<pc, peakVars, baseVars, ar, sp, msa, img>>
exceptSp == <<pc, peakVars, baseVars, ar, sm, msa, img>>
exceptMsa == <<pc, peakVars, baseVars, ar, sm, sp, img>>
exceptImg == <<pc, peakVars, baseVars, ar, sm, sp, msa>>
vars == <<pc, peakVars, baseVars, restVars>>

\* ------------------------------------------------------ detect_peaks: inputs
None == <<"none", 0>>

\* the arrays of length 0 .. n over the samples S
Arrays(S, n) == UNION {[1..m -> S] : m \in 0..n}

\* finite signals of every shape over three levels, up to MaxLen samples
FiniteSignals == Arrays({Fin(0), Fin(1), Fin(2)}, MaxLen)

\* signals of the two levels 0 and 1, up to MaxLen samples
BinarySignals == Arrays({Fin(0), Fin(1)}, MaxLen)

\* signals holding at least one NaN or infinite sample, up to MaxNonFiniteLen samples
NonFiniteSignals ==
    {a \in Arrays({Fin(0), Fin(1), NaN, PInf}, MaxNonFiniteLen) :
        \E k \in DOMAIN a : ~IsFinite(a[k])}

\* longer signals: zero but for at most MaxImpulses impulses of a height in 1 .. MaxVal
ImpulseSignals ==
    {a \in UNION {[1..m -> {Fin(n) : n \in 0..MaxVal}] : m \in (MaxLen + 1)..MaxImpulseLen} :
        Cardinality({k \in DOMAIN a : a[k] # Fin(0)}) <= MaxImpulses}

MphSet == {None, Fin(2)}
MpdSet == {1, 2}
ThresholdSet == {0, 1}
EdgeSet == {"none", "rising", "falling", "both"}

\* ------------------------------------------------- detect_peaks: the steps
\* astype handing back the caller's array instead of a copy
AstypeShared == "caller"

\* np.atleast_1d(x).astype(np.float64): astype returns a new array
AstypeBase == "own"

\* the short-input test letting two samples through
TooShortBelowTwo(a) == Len(a) < 2

\* if x.size < 3
TooShort(a) == Len(a) < 3

\* the negation left out
ValleyFlipIgnored(a, v) == a

\* x = -x when valley is set
ValleyFlip(a, v) == IF v THEN [k \in DOMAIN a |-> Neg(a[k])] ELSE a

\* np.diff(x), positions 0 .. N-2
Diff(a) == [k \in 1..(Len(a) - 1) |-> Sub(a[k + 1], a[k])]

\* np.where(np.isnan(x))[0]
NanPositions(a) == {k - 1 : k \in {j \in DOMAIN a : IsNan(a[j])}}

\* x[indnan] = np.inf and dx[np.where(np.isnan(dx))[0]] = np.inf, done when indnan.size
NanToInf(a, nans) == IF nans = {} THEN a ELSE [k \in DOMAIN a |-> IF IsNan(a[k]) THEN PInf ELSE a[k]]

\* np.hstack((dx, 0))[k] and np.hstack((0, dx))[k] for position k of x
Right(dx, k) == IF k + 1 <= Len(dx) THEN dx[k + 1] ELSE Fin(0)
Left(dx, k) == IF k = 0 THEN Fin(0) ELSE dx[k]

\* ine: strict maxima (edge is None)
Ine(dx, n, e) ==
    IF e = "none"
    THEN {k \in 0..(n - 1) : Lt(Right(dx, k), Fin(0)) /\ Gt(Left(dx, k), Fin(0))}
    ELSE {}

\* the rising edges of strict maxima only
IreStrict(dx, n, e) ==
    IF e \in {"rising", "both"}
    THEN {k \in 0..(n - 1) : Lt(Right(dx, k), Fin(0)) /\ Gt(Left(dx, k), Fin(0))}
    ELSE {}

\* ire: rising edges
Ire(dx, n, e) ==
    IF e \in {"rising", "both"}
    THEN {k \in 0..(n - 1) : Le(Right(dx, k), Fin(0)) /\ Gt(Left(dx, k), Fin(0))}
    ELSE {}

\* the falling edges left out of edge = "both"
IfeFallingOnly(dx, n, e) ==
    IF e = "falling"
    THEN {k \in 0..(n - 1) : Lt(Right(dx, k), Fin(0)) /\ Ge(Left(dx, k), Fin(0))}
    ELSE {}

\* ife: falling edges
Ife(dx, n, e) ==
    IF e \in {"falling", "both"}
    THEN {k \in 0..(n - 1) : Lt(Right(dx, k), Fin(0)) /\ Ge(Left(dx, k), Fin(0))}
    ELSE {}

\* ind = np.unique(np.hstack((ine, ire, ife)))
EdgeCandidates(dx, n, e) == Ascending(Ine(dx, n, e) \cup Ire(dx, n, e) \cup Ife(dx, n, e))

\* the right-hand neighbours of the NaN samples left out
InvalidWithoutRight(nans) == nans \cup {k - 1 : k \in nans}

\* invalid = np.unique(np.hstack((indnan, indnan - 1, indnan + 1)))
Invalid(nans) == nans \cup {k - 1 : k \in nans} \cup {k + 1 : k \in nans}

\* ind = ind[~np.in1d(ind, invalid)], done when ind.size and indnan.size
DropInvalid(c, nans) ==
    IF c # <<>> /\ nans # {}
    THEN Compress(c, [k \in DOMAIN c |-> c[k] \notin Invalid(nans)])
    ELSE c

\* the first candidate dropped whatever its position
DropFirstAlways(c) == IF c # <<>> THEN Tail(c) ELSE c

\* if ind.size and ind[0] == 0: ind = ind[1:]
DropFirst(c) == IF c # <<>> /\ c[1] = 0 THEN Tail(c) ELSE c

\* if ind.size and ind[-1] == x.size - 1: ind = ind[:-1]
DropLast(c, n) == IF c # <<>> /\ c[Len(c)] = n - 1 THEN SubSeq(c, 1, Len(c) - 1) ELSE c

\* lines 62-93 on the (already negated) array a: the candidates before the filters
Candidates(a, e) ==
    LET nans == NanPositions(a)
        dx == NanToInf(Diff(a), nans)
    IN DropLast(DropFirst(DropInvalid(EdgeCandidates(dx, Len(a), e), nans)), Len(a))

\* the height test made strict
HeightFilterStrict(a, c, h) ==
    IF c # <<>> /\ h # None
    THEN Compress(c, [k \in DOMAIN c |-> Gt(At(a, c[k]), h)])
    ELSE c

\* ind = ind[x[ind] >= mph], done when ind.size and mph is not None
HeightFilter(a, c, h) ==
    IF c # <<>> /\ h # None
    THEN Compress(c, [k \in DOMAIN c |-> Ge(At(a, c[k]), h)])
    ELSE c

\* the drop to the left-hand neighbour only
DiffMinLeft(a, p) == Sub(At(a, p), At(a, p - 1))

\* diff_min = np.minimum(x[ind] - x[ind - 1], x[ind] - x[ind + 1])
DiffMin(a, p) == Minimum(Sub(At(a, p), At(a, p - 1)), Sub(At(a, p), At(a, p + 1)))

\* the threshold filter left out
ThresholdFilterOff(a, c, t) == c

\* ind = np.delete(ind, np.where(diff_min < threshold)[0]), done when threshold > 0
ThresholdFilter(a, c, t) ==
    IF c # <<>> /\ t > 0
    THEN Compress(c, [k \in DOMAIN c |-> ~Lt(DiffMin(a, c[k]), Fin(t))])
    ELSE c

\* all orders of the sequence c
Orders(c) ==
    {[k \in DOMAIN c |-> c[f[k]]] :
        f \in {g \in [DOMAIN c -> DOMAIN c] : \A p, q \in DOMAIN c : p # q => g[p] # g[q]}}

\* ind[np.argsort(x[ind])[::-1]]: the candidates by descending amplitude. numpy does
\* not fix the order argsort gives to equal keys, so every descending order is possible.
SortedDesc(a, c) ==
    {s \in Orders(c) : \A k \in 1..(Len(s) - 1) : ~Lt(At(a, s[k]), At(a, s[k + 1]))}

\* the window made exclusive at both ends
WindowExclusive(c, k, j, d) == c[j + 1] > c[k + 1] - d /\ c[j + 1] < c[k + 1] + d

\* window = (ind >= ind[i] - mpd) & (ind <= ind[i] + mpd), at position j of ind
Window(c, k, j, d) == c[j + 1] >= c[k + 1] - d /\ c[j + 1] <= c[k + 1] + d

\* the mask of kpsh applied whatever kpsh is
MaskAlwaysStrict(a, c, k, j, d, keep) ==
    Window(c, k, j, d) /\ Gt(At(a, c[k + 1]), At(a, c[j + 1]))

\* the mask of kpsh letting equal amplitudes through
MaskKeepGe(a, c, k, j, d, keep) ==
    Window(c, k, j, d) /\ (keep => Ge(At(a, c[k + 1]), At(a, c[j + 1])))

\* mask: window & (x[ind[i]] > x[ind]) if kpsh, else window
Mask(a, c, k, j, d, keep) ==
    Window(c, k, j, d) /\ (keep => Gt(At(a, c[k + 1]), At(a, c[j + 1])))

\* the loop body run for marked candidates too
SuppressStepAlways(a, c, del, k, d, keep) ==
    [j \in DOMAIN c |-> IF j = k + 1 THEN FALSE ELSE del[j] \/ Mask(a, c, k, j - 1, d, keep)]

\* one pass of the loop body for i = k: idel = idel | mask; idel[i] = False
SuppressStep(a, c, del, k, d, keep) ==
    IF del[k + 1] THEN del
    ELSE [j \in DOMAIN c |-> IF j = k + 1 THEN FALSE ELSE del[j] \/ Mask(a, c, k, j - 1, d, keep)]

\* the loop for i in range(ind.size), from i = k on
RECURSIVE SuppressLoop(_, _, _, _, _, _)
SuppressLoop(a, c, del, k, d, keep) ==
    IF k >= Len(c) THEN del
    ELSE SuppressLoop(a, c, SuppressStep(a, c, del, k, d, keep), k + 1, d, keep)

\* idel = np.zeros(ind.size, dtype=bool)
Zeros(c) == [k \in DOMAIN c |-> FALSE]

\* the final np.sort left out
SortKeptUnsorted(c, del) == Compress(c, [k \in DOMAIN c |-> ~del[k]])

\* np.sort(ind[~idel])
SortKept(c, del) == Ascending({c[k] : k \in {j \in DOMAIN c : ~del[j]}})

\* lines 102-116: the results the minimum-distance step can give for candidates c
MinDistance(a, c, d, keep) ==
    IF c # <<>> /\ d > 1
    THEN {SortKept(s, SuppressLoop(a, s, Zeros(s), 0, d, keep)) : s \in SortedDesc(a, c)}
    ELSE {c}

\* detect_peaks as a function of its arguments: the index sequences a call can return
DetectPeaks(a0, h, d, t, e, keep, v) ==
    IF TooShort(a0) THEN {<<>>}
    ELSE LET a1 == ValleyFlip(a0, v)
             a == NanToInf(a1, NanPositions(a1))
         IN MinDistance(a, ThresholdFilter(a, HeightFilter(a, Candidates(a1, e), h), t), d, keep)

\* lines 118-122 (show): x[indnan] = np.nan written into x, then x = -x into a new array
ShowRestore(a, nans, v, show) ==
    IF show
    THEN ValleyFlip([k \in DOMAIN a |-> IF k - 1 \in nans THEN NaN ELSE a[k]], v)
    ELSE a

\* the caller's array after an in-place write that leaves b in the array x
WriteThrough(base, written, b) == IF base = "caller" /\ written THEN b ELSE signal

\* lines 55-93: copy, short-input return, negation, differences, NaN handling, edges
Prepare ==
    /\ UNCHANGED <<baseVars, restVars>>
    /\ pc = "call"
    /\ IF TooShort(signal)
       THEN /\ x' = signal
            /\ x_base' = AstypeBase
            /\ ret' = <<>>
            /\ pc' = "done"
            /\ UNCHANGED <<signal, indnan, ind>>
       ELSE LET x1 == ValleyFlip(signal, valley)
                base1 == IF valley THEN "own" ELSE AstypeBase
                nans == NanPositions(x1)
            IN /\ x' = NanToInf(x1, nans)
               /\ x_base' = base1
               /\ signal' = WriteThrough(base1, nans # {}, NanToInf(x1, nans))
               /\ indnan' = nans
               /\ ind' = Candidates(x1, edge)
               /\ pc' = "mph"
               /\ UNCHANGED ret
    /\ UNCHANGED <<params, idel, i>>

\* lines 95-96
HeightStep ==
    /\ UNCHANGED <<baseVars, restVars>>
    /\ pc = "mph"
    /\ ind' = HeightFilter(x, ind, mph)
    /\ pc' = "threshold"
    /\ UNCHANGED <<signal, x, x_base, params, indnan, idel, i, ret>>

\* lines 98-100
ThresholdStep ==
    /\ UNCHANGED <<baseVars, restVars>>
    /\ pc = "threshold"
    /\ ind' = ThresholdFilter(x, ind, threshold)
    /\ pc' = "mpd"
    /\ UNCHANGED <<signal, x, x_base, params, indnan, idel, i, ret>>

\* lines 118-125: the optional plot path and the return of ind
Return(result) ==
    /\ ret' = result
    /\ pc' = "done"
    /\ \E show \in BOOLEAN :
        /\ x' = ShowRestore(x, indnan, valley, show)
        /\ x_base' = IF show /\ valley THEN "own" ELSE x_base
        /\ signal' = WriteThrough(x_base, show /\ indnan # {},
                                  ShowRestore(x, indnan, FALSE, show))

\* lines 102-104: the step is entered, the candidates sorted by descending amplitude
MpdSort ==
    /\ UNCHANGED <<baseVars, restVars>>
    /\ pc = "mpd"
    /\ ind # <<>> /\ mpd > 1
    /\ ind' \in SortedDesc(x, ind)
    /\ idel' = Zeros(ind)
    /\ i' = 0
    /\ pc' = "loop"
    /\ UNCHANGED <<signal, x, x_base, params, indnan, ret>>

\* line 102 false: the step is skipped
MpdSkip ==
    /\ UNCHANGED <<baseVars, restVars>>
    /\ pc = "mpd"
    /\ ~(ind # <<>> /\ mpd > 1)
    /\ Return(ind)
    /\ UNCHANGED <<params, indnan, ind, idel, i>>

\* lines 106-114: one iteration of the loop
MpdIter ==
    /\ UNCHANGED <<baseVars, restVars>>
    /\ pc = "loop"
    /\ i < Len(ind)
    /\ idel' = SuppressStep(x, ind, idel, i, mpd, kpsh)
    /\ i' = i + 1
    /\ UNCHANGED <<pc, signal, x, x_base, params, indnan, ind, ret>>

\* line 116, then the return
MpdFinish ==
    /\ UNCHANGED <<baseVars, restVars>>
    /\ pc = "loop"
    /\ i = Len(ind)
    /\ ind' = SortKept(ind, idel)
    /\ Return(SortKept(ind, idel))
    /\ UNCHANGED <<params, indnan, idel, i>>

\* ------------------------------------------------------------ specification
\* a call of an arPLS variant that has not started
ArStart ==
    [pc |-> "call", D |-> <<>>, H |-> <<>>, it |-> 0, solves |-> 0, z |-> 0,
     warned |-> FALSE, err |-> "", out |-> 0]

\* neither arPLS variant is running
NoArpls ==
    [L |-> 0, lam |-> 0, ratio |-> Fin(0), niter |-> 0, crits |-> <<>>,
     b |-> ArStart, c |-> ArStart]

\* no Spectrum is being constructed
NoSpectrum ==
    [via |-> "", x |-> <<>>, y |-> <<>>, n |-> 0, pc |-> "", tried |-> FALSE,
     args |-> <<>>, made |-> <<>>, err |-> ""]

\* no file is being parsed
NoMsa ==
    [impl |-> "", lines |-> <<>>, k |-> 0, in_data |-> FALSE, xs |-> <<>>, ys |-> <<>>,
     meta |-> <<>>, pc |-> "", err |-> ""]

\* no smoothing is running
NoSmooth == [impl |-> "", n |-> 0, y |-> <<>>, pc |-> "", out |-> <<>>, calls |-> 0, err |-> ""]

\* no file name is being parsed
NoImg == [name |-> <<>>, pc |-> "", parts |-> <<>>, out |-> <<>>, err |-> ""]

\* the components other than detect_peaks and baseline_correction are idle
RestIdle ==
    ar = NoArpls /\ sm = NoSmooth /\ sp = NoSpectrum /\ msa = NoMsa /\ img = NoImg

\* no spectrum is at hand
NoFields == [x |-> <<>>, metadata |-> <<>>]

\* the other fields of an EmsaSpectrum whose y is yy: an x of the same shape, as
\* __post_init__ demands, and a metadata mapping with one entry
FieldsFor(yy) ==
    [x |-> [k \in DOMAIN yy |-> Fin(k - 1)], metadata |-> [q \in {"TITLE"} |-> "a"]]

\* no baseline correction is running
NoCall ==
    [niter |-> 0, y_offset |-> Fin(0), it |-> 0, D |-> <<>>, w |-> <<>>, z |-> <<>>,
     corr |-> <<>>]

\* a call detect_peaks(signal, mph, mpd, threshold, edge, kpsh, valley) is about to run
Call(S, H, D, T, E, K, V) ==
    /\ pc = "call"
    /\ signal \in S
    /\ mph \in H
    /\ mpd \in D
    /\ threshold \in T
    /\ edge \in E
    /\ kpsh \in K
    /\ valley \in V
    /\ x = <<>>
    /\ x_base = "own"
    /\ indnan = {}
    /\ ind = <<>>
    /\ idel = <<>>
    /\ i = 0
    /\ ret = <<>>
    /\ self_y = <<>>
    /\ self_xm = NoFields
    /\ bc = NoCall
    /\ RestIdle

Init ==
    \/ Call(FiniteSignals, MphSet, MpdSet, ThresholdSet, EdgeSet, BOOLEAN, {FALSE})
    \/ Call(BinarySignals, {None, Fin(0)}, MpdSet, ThresholdSet, EdgeSet, BOOLEAN, {TRUE})
    \/ Call(NonFiniteSignals, {None}, MpdSet, {0}, EdgeSet, BOOLEAN, BOOLEAN)
    \/ Call(ImpulseSignals, {None}, {1, 2, 5}, {0}, {"rising"}, {FALSE}, {FALSE})

Next ==
    \/ Prepare
    \/ HeightStep
    \/ ThresholdStep
    \/ MpdSort
    \/ MpdSkip
    \/ MpdIter
    \/ MpdFinish

Spec == Init /\ [][Next]_vars

\* the calls on finite signals without negation: every shape of up to MaxLen samples
\* with every filter, and the impulse signals with the minimum-distance step
InitPeaks ==
    \/ Call(FiniteSignals, MphSet, MpdSet, ThresholdSet, EdgeSet, BOOLEAN, {FALSE})
    \/ Call(ImpulseSignals, {None}, {2, 3}, {0}, {"rising"}, BOOLEAN, {FALSE})

SpecPeaks == InitPeaks /\ [][Next]_vars

\* ------------------------------------------------- the penalty operators
\* A matrix is its shape and its entries: e[r][c] for r in 1..rows, c in 1..cols.

\* the sum of the integers s[1] .. s[Len(s)]
RECURSIVE SumSeq(_)
SumSeq(s) == IF s = <<>> THEN 0 ELSE s[1] + SumSeq(Tail(s))

\* M.T
Transpose(M) ==
    [rows |-> M.cols, cols |-> M.rows,
     e |-> [r \in 1..M.cols |-> [c \in 1..M.rows |-> M.e[c][r]]]]

\* A @ B
MatMul(A, B) ==
    [rows |-> A.rows, cols |-> B.cols,
     e |-> [r \in 1..A.rows |-> [c \in 1..B.cols |->
                SumSeq([k \in 1..A.cols |-> A.e[r][k] * B.e[k][c]])]]]

\* lam * M
Scale(lam, M) == [M EXCEPT !.e = [r \in 1..M.rows |-> [c \in 1..M.cols |-> lam * M.e[r][c]]]]

\* sp.sparse.diags([1, -2, 1], [0, -1, -2], shape=(L, L - 2)): the value v of offset k
\* fills the entries (r, c) with c - r = k
Diags(L) ==
    [rows |-> L, cols |-> L - 2,
     e |-> [r \in 1..L |-> [c \in 1..(L - 2) |->
                IF c - r = 0 THEN 1 ELSE IF c - r = -1 THEN -2 ELSE IF c - r = -2 THEN 1 ELSE 0]]]

\* diag = np.ones(L - 2); sp.sparse.spdiags([diag, -2 * diag, diag], [0, -1, -2], L, L - 2):
\* entry c of the row of offset k goes to column c, row c - k
SpDiags(L) ==
    LET diag == [c \in 1..(L - 2) |-> 1]
    IN [rows |-> L, cols |-> L - 2,
        e |-> [r \in 1..L |-> [c \in 1..(L - 2) |->
                (IF r = c THEN diag[c] ELSE 0)
                + (IF r = c + 1 THEN -2 * diag[c] ELSE 0)
                + (IF r = c + 2 THEN diag[c] ELSE 0)]]]

\* sp.sparse.eye(N)
Eye(N) ==
    [rows |-> N, cols |-> N,
     e |-> [r \in 1..N |-> [c \in 1..N |-> IF r = c THEN 1 ELSE 0]]]

\* D = sp.sparse.eye(N); D = D[1:] - D[:-1]
EyeDiff(N) ==
    [rows |-> N - 1, cols |-> N,
     e |-> [r \in 1..(N - 1) |-> [c \in 1..N |-> Eye(N).e[r + 1][c] - Eye(N).e[r][c]]]]

\* ----------------------------------------- baseline correction (Variant A)
\* In this part a finite value n stands for n times the floor 1e-10, so that the
\* floor itself is Fin(1) and a weight is one of the four values the code can form.

\* the floor of np.maximum(y, 1e-10)
Floor == Fin(1)

\* w = np.ones(L)
Ones(y) == [k \in DOMAIN y |-> "one"]

\* entry k of the right-hand side w * y: 0 * inf is NaN
Rhs(w, y, k) ==
    IF IsNan(y[k]) \/ (w[k] = "zero" /\ ~IsFinite(y[k])) THEN NaN
    ELSE IF w[k] = "zero" THEN Fin(0)
    ELSE y[k]

\* Z = W + lam * D @ D.T is singular: D @ D.T annihilates exactly the affine sequences,
\* and a nonzero affine sequence vanishes on at most one position
Singular(w) == Cardinality({k \in DOMAIN w : w[k] # "zero"}) < 2

\* the vectors of length n over the values S
Vectors(S, n) == [1..n -> S]

\* z = spsolve(Z, w * y). The solve is scipy's (SuperLU); its value is not computed
\* here. A finite right-hand side gives a finite z, or the all-NaN vector scipy
\* returns for a matrix found singular. A NaN in the right-hand side reaches every
\* entry of z through the forward and the back substitution. An infinite entry gives
\* infinities and NaNs (inf - inf), in an arrangement the elimination order decides.
Solve(w, y) ==
    IF \A k \in DOMAIN y : IsFinite(Rhs(w, y, k))
    THEN Vectors({Fin(0), Fin(1)}, Len(y))
            \cup (IF Singular(w) THEN {[k \in DOMAIN y |-> NaN]} ELSE {})
    ELSE IF \E k \in DOMAIN y : IsNan(Rhs(w, y, k))
    THEN {[k \in DOMAIN y |-> NaN]}
    ELSE Vectors({PInf, NInf, NaN}, Len(y))

\* the reweighting with y >= z in place of y > z
ReweightGe(y, z) ==
    [k \in DOMAIN y |->
        IF Ge(y[k], z[k]) THEN "p" ELSE IF Lt(y[k], z[k]) THEN "1-p" ELSE "zero"]

\* w = p * (y > z) + (1 - p) * (y < z)
Reweight(y, z) ==
    [k \in DOMAIN y |->
        IF Gt(y[k], z[k]) THEN "p" ELSE IF Lt(y[k], z[k]) THEN "1-p" ELSE "zero"]

\* the difference written into the caller's array (y -= z)
SubtractInPlace == "caller"

\* corr = y - z: the difference is a new array, "own", and y is left as it is
SubtractBase == "own"

\* corr = y - z
Subtract(y, z) == [k \in DOMAIN y |-> Sub(y[k], z[k])]

\* the all-NaN test left out
AllNanIgnored(c) == FALSE

\* np.isnan(corr).all()
AllNan(c) == \A k \in DOMAIN c : IsNan(c[k])

\* y += y_offset
AddOffset(c, off) == [k \in DOMAIN c |-> Add(c[k], off)]

\* np.maximum(y, 1e-10): NaN stays NaN
Clamp(c) ==
    [k \in DOMAIN c |-> IF IsNan(c[k]) THEN NaN ELSE IF Lt(c[k], Floor) THEN Floor ELSE c[k]]

\* baseline.py lines 15-20: the niter test, then D built and the weights set to one
BcEnter ==
    /\ pc = "bc_call"
    /\ IF bc.niter < 1
       THEN pc' = "raised" /\ UNCHANGED bc
       ELSE pc' = "bc_loop"
            /\ bc' = [bc EXCEPT !.D = Diags(Len(self_y)), !.w = Ones(self_y), !.it = 0]
    /\ UNCHANGED <<self_y, self_xm, peakVars, restVars>>

\* baseline.py lines 22-26: one solve and reweighting
BcIterate ==
    /\ pc = "bc_loop"
    /\ bc.it < bc.niter
    /\ \E zz \in Solve(bc.w, self_y) :
        bc' = [bc EXCEPT !.z = zz, !.w = Reweight(self_y, zz), !.it = @ + 1]
    /\ UNCHANGED <<pc, self_y, self_xm, peakVars, restVars>>

\* baseline.py lines 28-32: the corrected signal, rejected when it is all NaN
BcSubtract ==
    /\ pc = "bc_loop"
    /\ bc.it = bc.niter
    /\ bc' = [bc EXCEPT !.corr = Subtract(self_y, bc.z)]
    /\ pc' = IF AllNan(Subtract(self_y, bc.z)) THEN "raised" ELSE "bc_post"
    /\ self_y' = IF SubtractBase = "caller" THEN Subtract(self_y, bc.z) ELSE self_y
    /\ UNCHANGED <<self_xm, peakVars, restVars>>

\* emsa.py lines 60-61: the offset, the clamp, and the result stored in self.y
BcStore ==
    /\ pc = "bc_post"
    /\ self_y' = Clamp(AddOffset(bc.corr, bc.y_offset))
    /\ pc' = "done"
    /\ UNCHANGED <<self_xm, bc, peakVars, restVars>>

\* spectra of MinBaselineLen .. MaxBaselineLen samples: finite ones over three levels,
\* and ones holding an infinite or NaN sample
BaselineSignals ==
    UNION {Vectors({Fin(0), Fin(1), Fin(2)}, n)
            \cup (Vectors({Fin(0), PInf, NaN}, n) \ Vectors({Fin(0)}, n)) :
                n \in 3..MaxBaselineLen}

InitBaseline ==
    /\ pc = "bc_call"
    /\ self_y \in BaselineSignals
    /\ self_xm = FieldsFor(self_y)
    /\ \E n \in 0..MaxIter, off \in {Fin(0), Fin(2)} :
        bc = [NoCall EXCEPT !.niter = n, !.y_offset = off]
    /\ signal = <<>>
    /\ mph = None
    /\ mpd = 1
    /\ threshold = 0
    /\ edge = "rising"
    /\ kpsh = FALSE
    /\ valley = FALSE
    /\ x = <<>>
    /\ x_base = "own"
    /\ indnan = {}
    /\ ind = <<>>
    /\ idel = <<>>
    /\ i = 0
    /\ ret = <<>>
    /\ RestIdle

NextBaseline ==
    \/ BcEnter
    \/ BcIterate
    \/ BcSubtract
    \/ BcStore

SpecBaseline == InitBaseline /\ [][NextBaseline]_vars

\* the call is sequential code: a step that can be taken is taken
SpecBaselineFair == SpecBaseline /\ WF_vars(NextBaseline)

\* ------------------------------- baseline estimation (Variants B and C)
\* baseline_subtract_arpls (ar.b) and baseline_subtract_arpls_cholesky (ar.c) are
\* called with one signal length L, one lam, one ratio and one iteration cap. The
\* relative weight change of iteration k is ar.crits[k] in both; the statistics it
\* comes from (mean and deviation of the negative residuals, the logistic weights,
\* the two norms) are not computed here. NaN is the change after an iteration
\* without a negative residual. The estimate z is named by the iteration that
\* solved for it, 0 while z is unbound.

\* baseline.py lines 73-82: the niter test, then D, H and the weights
ArEnter ==
    /\ pc = "variants"
    /\ ar.b.pc = "call"
    /\ ar' = IF ar.niter < 1
             THEN [ar EXCEPT !.b.pc = "raised", !.b.err = "ValueError"]
             ELSE [ar EXCEPT !.b.pc = "loop",
                             !.b.D = SpDiags(ar.L),
                             !.b.H = Scale(ar.lam, MatMul(SpDiags(ar.L), Transpose(SpDiags(ar.L))))]
    /\ UNCHANGED exceptAr

\* if crit < ratio: break
ConvergedAlways(crit, ratio) == TRUE

\* if crit < ratio: break
Converged(crit, ratio) == Lt(crit, ratio)

\* baseline.py lines 84-95: one solve, the new weights, and the break on convergence
ArIterate ==
    /\ pc = "variants"
    /\ ar.b.pc = "loop"
    /\ ar.b.it < ar.niter
    /\ ar' = [ar EXCEPT !.b.solves = @ + 1,
                        !.b.it = @ + 1,
                        !.b.z = ar.b.it + 1,
                        !.b.pc = IF Converged(ar.crits[ar.b.it + 1], ar.ratio)
                                 THEN "return" ELSE "loop"]
    /\ UNCHANGED exceptAr

\* the else clause of the loop left out
ExhaustSilent == FALSE

\* baseline.py lines 96-97: the else clause of the loop prints the warning
ExhaustWarns == TRUE

\* baseline.py lines 84, 96-97: the loop ran niter times without a break
ArExhaust ==
    /\ pc = "variants"
    /\ ar.b.pc = "loop"
    /\ ar.b.it = ar.niter
    /\ ar' = [ar EXCEPT !.b.warned = ExhaustWarns, !.b.pc = "return"]
    /\ UNCHANGED exceptAr

\* baseline.py line 99: return z
ArReturn ==
    /\ pc = "variants"
    /\ ar.b.pc = "return"
    /\ ar' = [ar EXCEPT !.b.out = ar.b.z, !.b.pc = "done"]
    /\ UNCHANGED exceptAr

\* baseline.py lines 107-112: D, H and the weights; itermax is not tested
ChEnter ==
    /\ pc = "variants"
    /\ ar.c.pc = "call"
    /\ ar' = [ar EXCEPT !.c.pc = "loop",
                        !.c.D = EyeDiff(ar.L),
                        !.c.H = Scale(ar.lam, MatMul(Transpose(EyeDiff(ar.L)), EyeDiff(ar.L)))]
    /\ UNCHANGED exceptAr

\* baseline.py lines 113-126: the factorisation, the two triangular solves, and the
\* break on convergence. Lines 115-116 can raise: csc_matrix is looked up in
\* scipy.linalg, which need not have it, and cholesky rejects a matrix that is not
\* positive definite (as W + H is with NaN weights).
ChIterate ==
    /\ pc = "variants"
    /\ ar.c.pc = "loop"
    /\ ar.c.it < ar.niter
    /\ \/ ar' = [ar EXCEPT !.c.pc = "raised", !.c.err = "factorisation"]
       \/ ar' = [ar EXCEPT !.c.solves = @ + 2,
                           !.c.it = @ + 1,
                           !.c.z = ar.c.it + 1,
                           !.c.pc = IF Converged(ar.crits[ar.c.it + 1], ar.ratio)
                                    THEN "return" ELSE "loop"]
    /\ UNCHANGED exceptAr

\* baseline.py line 113: the loop ran itermax times without a break; no else clause
ChExhaust ==
    /\ pc = "variants"
    /\ ar.c.pc = "loop"
    /\ ar.c.it = IF ar.niter < 0 THEN 0 ELSE ar.niter
    /\ ar' = [ar EXCEPT !.c.pc = "return"]
    /\ UNCHANGED exceptAr

\* baseline.py line 128: return z, an UnboundLocalError when no iteration bound z
ChReturn ==
    /\ pc = "variants"
    /\ ar.c.pc = "return"
    /\ ar' = IF ar.c.z = 0
             THEN [ar EXCEPT !.c.pc = "raised", !.c.err = "UnboundLocalError"]
             ELSE [ar EXCEPT !.c.out = ar.c.z, !.c.pc = "done"]
    /\ UNCHANGED exceptAr

\* detect_peaks is not running
PeaksIdle ==
    /\ signal = <<>>
    /\ mph = None
    /\ mpd = 1
    /\ threshold = 0
    /\ edge = "rising"
    /\ kpsh = FALSE
    /\ valley = FALSE
    /\ x = <<>>
    /\ x_base = "own"
    /\ indnan = {}
    /\ ind = <<>>
    /\ idel = <<>>
    /\ i = 0
    /\ ret = <<>>

\* baseline_correction is not running
BaselineIdle == self_y = <<>> /\ self_xm = NoFields /\ bc = NoCall

LamSet == {1, 2}
RatioSet == {Fin(0), Fin(1)}
CritSet == {Fin(0), Fin(1), NaN}

InitVariants ==
    /\ pc = "variants"
    /\ \E L \in 3..MaxArLen, lam \in LamSet, ratio \in RatioSet, niter \in (-1)..MaxArIter,
          crits \in [1..MaxArIter -> CritSet] :
        ar = [L |-> L, lam |-> lam, ratio |-> ratio, niter |-> niter, crits |-> crits,
              b |-> ArStart, c |-> ArStart]
    /\ PeaksIdle
    /\ BaselineIdle
    /\ sm = NoSmooth /\ sp = NoSpectrum /\ msa = NoMsa /\ img = NoImg

NextVariants ==
    \/ ArEnter
    \/ ArIterate
    \/ ArExhaust
    \/ ArReturn
    \/ ChEnter
    \/ ChIterate
    \/ ChExhaust
    \/ ChReturn

SpecVariants == InitVariants /\ [][NextVariants]_vars

\* ---------------------------------------------------------------- smoothing
\* Samples are integers here, and a smoothed sample is the pair <<s, n>> of the window
\* sum s and the window size n, standing for s / n.

\* np.convolve(y, np.ones(n) / n, mode="same"): entry k of the full convolution is the
\* sum of the y[j] with 0 <= k - j < n, and "same" returns the max(M, n) entries in
\* the middle of it, from entry (min(M, n) - 1) \div 2 on
Convolve(y, n) ==
    LET M == Len(y)
        first == ((IF M < n THEN M ELSE n) - 1) \div 2
        full(k) == SumSeq([j \in 1..M |-> IF 0 <= k - (j - 1) /\ k - (j - 1) < n THEN y[j] ELSE 0])
    IN [k \in 1..(IF M < n THEN n ELSE M) |-> <<full(first + k - 1), n>>]

\* the sample at position idx (0-based, any integer) of y extended by reflection:
\* ... c b a | a b c ... | c b a ...
Reflect(y, idx) ==
    LET M == Len(y)
        t == idx % (2 * M)
    IN y[(IF t < M THEN t ELSE 2 * M - 1 - t) + 1]

\* scipy.ndimage.uniform_filter1d(y, size=n): mode "reflect", origin 0; the window of
\* output k covers the positions k - n \div 2 .. k - n \div 2 + n - 1
UniformFilter(y, n) ==
    [k \in 1..Len(y) |->
        <<SumSeq([j \in 1..n |-> Reflect(y, (k - 1) - (n \div 2) + (j - 1))]), n>>]

\* the window test letting 0 through
WindowInvalidBelowZero(n) == n < 0

\* processing.py line 26: if n < 1
WindowInvalid(n) == n < 1

\* processing.py lines 26-27: the window size is tested first
SmoothCheck ==
    /\ pc = "smooth"
    /\ sm.impl = "free" /\ sm.pc = "call"
    /\ sm' = IF WindowInvalid(sm.n)
             THEN [sm EXCEPT !.pc = "raised", !.err = "ValueError"]
             ELSE [sm EXCEPT !.pc = "filter"]
    /\ UNCHANGED exceptSm

\* processing.py line 28: the moving average is returned
SmoothConvolve ==
    /\ pc = "smooth"
    /\ sm.impl = "free" /\ sm.pc = "filter"
    /\ sm' = [sm EXCEPT !.out = Convolve(sm.y, sm.n), !.calls = @ + 1, !.pc = "done"]
    /\ UNCHANGED exceptSm

\* emsa.py line 31: if window_size < 1
SizeInvalid(n) == n < 1

\* emsa.py lines 31-32: the window size is tested first
MethodCheck ==
    /\ pc = "smooth"
    /\ sm.impl = "method" /\ sm.pc = "call"
    /\ sm' = IF SizeInvalid(sm.n)
             THEN [sm EXCEPT !.pc = "raised", !.err = "ValueError"]
             ELSE [sm EXCEPT !.pc = "filter"]
    /\ UNCHANGED exceptSm

\* emsa.py line 33: self.y is replaced by the filtered array
MethodFilter ==
    /\ pc = "smooth"
    /\ sm.impl = "method" /\ sm.pc = "filter"
    /\ sm' = [sm EXCEPT !.y = UniformFilter(sm.y, sm.n), !.calls = @ + 1, !.pc = "done"]
    /\ UNCHANGED exceptSm

\* arrays of 1 .. MaxSmoothLen samples over three levels
SmoothSignals == UNION {[1..m -> 0..2] : m \in 1..MaxSmoothLen}

InitSmooth ==
    /\ pc = "smooth"
    /\ \E impl \in {"free", "method"}, n \in (-1)..MaxWindow, y \in SmoothSignals :
        /\ sm = [NoSmooth EXCEPT !.impl = impl, !.n = n, !.y = y, !.pc = "call"]
        /\ self_xm = IF impl = "method" THEN FieldsFor(y) ELSE NoFields
    /\ PeaksIdle
    /\ self_y = <<>> /\ bc = NoCall
    /\ ar = NoArpls /\ sp = NoSpectrum /\ msa = NoMsa /\ img = NoImg

NextSmooth ==
    \/ SmoothCheck
    \/ SmoothConvolve
    \/ MethodCheck
    \/ MethodFilter

SpecSmooth == InitSmooth /\ [][NextSmooth]_vars

\* the in-place methods of an EmsaSpectrum: baseline_correction and smooth
InitInPlace == InitBaseline \/ InitSmooth

NextInPlace == NextBaseline \/ NextSmooth

SpecInPlace == InitInPlace /\ [][NextInPlace]_vars

\* -------------------------------------------------- Spectrum construction
\* sp.x and sp.y are the arrays the call starts from: the arguments of Spectrum(x, y),
\* the fields of the spectrum s handed to copy, baseline_correct or tidy_spectrum (a
\* dataclass that is not frozen, so any arrays), or the lists xs and ys of the parser.
\* sp.args are the arrays of the latest constructor call, sp.made the Spectrum values
\* the constructor returned.

\* the order test with >= in place of >
PostInitNonStrict(xx, yy) ==
    IF Len(xx) # Len(yy) THEN "ValueError"
    ELSE IF ~(\A k \in DOMAIN Diff(xx) : Ge(Diff(xx)[k], Fin(0))) THEN "ValueError"
    ELSE ""

\* models.py lines 12-18, Spectrum.__post_init__: the error raised, "" if none
PostInit(xx, yy) ==
    IF Len(xx) # Len(yy) THEN "ValueError"
    ELSE IF ~(\A k \in DOMAIN Diff(xx) : Gt(Diff(xx)[k], Fin(0))) THEN "ValueError"
    ELSE ""

\* Spectrum(x=xx, y=yy, ...): the constructor call; on success the call goes on at next
Construct(xx, yy, next) ==
    LET err == PostInit(xx, yy)
    IN [sp EXCEPT !.tried = TRUE, !.args = <<xx, yy>>, !.err = err,
                  !.pc = IF err = "" THEN next ELSE "raised",
                  !.made = IF err = "" THEN Append(@, [x |-> xx, y |-> yy]) ELSE @]

\* s.y - baseline: the baseline is pybaselines' and has the shape of s.y
MinusBaseline(yy) == [k \in DOMAIN yy |-> <<"corrected", yy[k]>>]

\* models.py lines 12-18: Spectrum(x, y) called directly
SpNew ==
    /\ pc = "spectrum"
    /\ sp.via = "direct" /\ sp.pc = "call"
    /\ sp' = Construct(sp.x, sp.y, "done")
    /\ UNCHANGED exceptSp

\* models.py lines 20-21: Spectrum.copy
SpCopy ==
    /\ pc = "spectrum"
    /\ sp.via = "copy" /\ sp.pc = "call"
    /\ sp' = Construct(sp.x, sp.y, "done")
    /\ UNCHANGED exceptSp

\* processing.py lines 49-51: baseline_correct; the pybaselines calls of lines 49-50 may
\* raise
BaselineCorrect(xx, yy) ==
    \/ sp' = [sp EXCEPT !.pc = "raised", !.err = "pybaselines"]
    \/ sp' = Construct(xx, MinusBaseline(yy), "done")

SpBaselineCorrect ==
    /\ pc = "spectrum"
    /\ sp.via = "baseline_correct" /\ sp.pc = "call"
    /\ BaselineCorrect(sp.x, sp.y)
    /\ UNCHANGED exceptSp

\* processing.py lines 85-86: tidy_spectrum smooths s.y (smooth rejects a window below
\* 1, np.convolve an empty array) and constructs s_smooth
SpTidySmooth ==
    /\ pc = "spectrum"
    /\ sp.via = "tidy" /\ sp.pc = "call"
    /\ sp' = IF WindowInvalid(sp.n) \/ sp.y = <<>>
             THEN [sp EXCEPT !.pc = "raised", !.err = "ValueError"]
             ELSE Construct(sp.x, Convolve(sp.y, sp.n), "tidy_bc")
    /\ UNCHANGED exceptSp

\* processing.py line 87: tidy_spectrum returns baseline_correct(s_smooth)
SpTidyBaseline ==
    /\ pc = "spectrum"
    /\ sp.via = "tidy" /\ sp.pc = "tidy_bc"
    /\ BaselineCorrect(sp.args[1], sp.args[2])
    /\ UNCHANGED exceptSp

\* io.py lines 68-71: parse_msa_file rejects an empty xs and constructs the Spectrum
SpParse ==
    /\ pc = "spectrum"
    /\ sp.via = "parse" /\ sp.pc = "call"
    /\ sp' = IF sp.x = <<>>
             THEN [sp EXCEPT !.pc = "raised", !.err = "ValueError"]
             ELSE Construct(sp.x, sp.y, "done")
    /\ UNCHANGED exceptSp

\* x arrays: up to MaxSpectrumLen samples over three levels and NaN
SpectrumXs == Arrays({Fin(0), Fin(1), Fin(2), NaN}, MaxSpectrumLen)

\* y arrays: up to MaxSpectrumLen samples over two levels
SpectrumYs == UNION {[1..m -> 0..1] : m \in 0..MaxSpectrumLen}

InitSpectrum ==
    /\ pc = "spectrum"
    /\ \E via \in {"direct", "copy", "baseline_correct", "tidy", "parse"},
          xx \in SpectrumXs, yy \in SpectrumYs, n \in 0..(MaxSpectrumLen + 1) :
        /\ via # "tidy" => n = 0
        /\ via = "parse" => Len(xx) = Len(yy)
        /\ sp = [NoSpectrum EXCEPT !.via = via, !.x = xx, !.y = yy, !.n = n, !.pc = "call"]
    /\ PeaksIdle
    /\ BaselineIdle
    /\ ar = NoArpls /\ sm = NoSmooth /\ msa = NoMsa /\ img = NoImg

NextSpectrum ==
    \/ SpNew
    \/ SpCopy
    \/ SpBaselineCorrect
    \/ SpTidySmooth
    \/ SpTidyBaseline
    \/ SpParse

SpecSpectrum == InitSpectrum /\ [][NextSpectrum]_vars

\* --------------------------------------------------------- parse_msa_file
\* A piece of text is the word it spells in upper case (s), whether it is written in
\* lower case, whether blanks stand next to it, and the number of '#' in front of it
\* (pre).
\* A line of the file is blank, a '#' line (the number of leading '#', the word after
\* them, and the text after the first ':' if there is one), or any other text (the
\* text before the first ',' and the text after it).
Text(w, lower, pad) == [s |-> w, lower |-> lower, pad |-> pad, pre |-> 0]

\* str.upper()
Upper(t) == [t EXCEPT !.lower = FALSE]

\* str.strip()
Strip(t) == [t EXCEPT !.pad = FALSE]

\* float(t): the value, NaN-free here; "" if t is not a number (float raises ValueError)
Float(t) ==
    IF Strip(t).s = "0" THEN Fin(0)
    ELSE IF Strip(t).s = "1" THEN Fin(1)
    ELSE IF Strip(t).s = "5" THEN Fin(5)
    ELSE IF Strip(t).s = "7" THEN Fin(7)
    ELSE ""

Blank == [kind |-> "blank"]
HashLine(h, w, c, v) == [kind |-> "hash", hashes |-> h, word |-> w, colon |-> c, val |-> v]
TextLine(a, b) == [kind |-> "text", x |-> a, y |-> b]

\* the lines a file is made of
LineSet ==
    { Blank,
      HashLine(1, Text("SPECTRUM", FALSE, FALSE), FALSE, Text("", FALSE, FALSE)),
      HashLine(1, Text("SPECTRUM", TRUE, TRUE), TRUE, Text("START", FALSE, TRUE)),
      HashLine(1, Text("TITLE", TRUE, TRUE), TRUE, Text("A", FALSE, TRUE)),
      HashLine(1, Text("TITLE", FALSE, FALSE), TRUE, Text("B", FALSE, FALSE)),
      HashLine(2, Text("LABEL", FALSE, FALSE), TRUE, Text("C", FALSE, TRUE)),
      HashLine(1, Text("NOTE", FALSE, TRUE), FALSE, Text("", FALSE, FALSE)),
      TextLine(Text("0", FALSE, FALSE), Text("5", FALSE, TRUE)),
      TextLine(Text("1", FALSE, FALSE), Text("7", FALSE, TRUE)),
      TextLine(Text("ABC", TRUE, FALSE), Text("5", FALSE, FALSE)) }

\* line.upper().startswith("#SPECTRUM"): one '#', then the word SPECTRUM in any case
IsMarker(l) == l.kind = "hash" /\ l.hashes = 1 /\ Upper(l.word).s = "SPECTRUM"

\* meta[key] = val
Store(meta, key, val) ==
    [q \in DOMAIN meta \cup {key} |-> IF q = key THEN val ELSE meta[q]]

\* the key stored as it is written
KeyAsWritten(t) == Strip(t)

\* key.strip().upper()
Key(t) == Upper(Strip(t))

\* io.py lines 74-80, _parse_metadata_line: every leading '#' is stripped
ParseMetadataLine(l, meta) ==
    IF ~l.colon THEN meta ELSE Store(meta, Key(l.word), Strip(l.val))

\* emsa.py lines 137-139: the first '#' is cut off, the others stay in the key
EmsaMetadataLine(l, meta) ==
    IF ~l.colon THEN meta
    ELSE Store(meta, Key([l.word EXCEPT !.pre = l.hashes - 1]), Strip(l.val))

\* io.py lines 43-66: one line of the file
IoLine ==
    /\ pc = "msa"
    /\ msa.impl = "io" /\ msa.pc = "read"
    /\ msa.k < Len(msa.lines)
    /\ LET l == msa.lines[msa.k + 1]
           next == [msa EXCEPT !.k = @ + 1]
       IN msa' = IF l.kind = "blank" THEN next
                 ELSE IF l.kind = "hash"
                 THEN IF IsMarker(l) THEN [next EXCEPT !.in_data = TRUE]
                      ELSE [next EXCEPT !.meta = ParseMetadataLine(l, msa.meta)]
                 ELSE IF ~msa.in_data THEN next
                 ELSE IF Float(l.x) = "" \/ Float(l.y) = ""
                 THEN [next EXCEPT !.pc = "raised", !.err = "ValueError"]
                 ELSE [next EXCEPT !.xs = Append(@, Float(l.x)), !.ys = Append(@, Float(l.y))]
    /\ UNCHANGED exceptMsa

\* io.py lines 68-71: no data is an error; the Spectrum is constructed
IoFinish ==
    /\ pc = "msa"
    /\ msa.impl = "io" /\ msa.pc = "read"
    /\ msa.k = Len(msa.lines)
    /\ msa' = IF msa.xs = <<>> \/ PostInit(msa.xs, msa.ys) # ""
              THEN [msa EXCEPT !.pc = "raised", !.err = "ValueError"]
              ELSE [msa EXCEPT !.pc = "done"]
    /\ UNCHANGED exceptMsa

\* emsa.py lines 130-144: the body of the loop for the line at position m.k of the
\* file, as a function of the locals m
EmRead(m) ==
    LET l == m.lines[m.k + 1]
        next == [m EXCEPT !.k = @ + 1]
    IN IF l.kind = "blank" THEN next
       ELSE IF ~m.in_data /\ IsMarker(l) THEN [next EXCEPT !.in_data = TRUE]
       ELSE IF l.kind = "hash"
       THEN [next EXCEPT !.meta = EmsaMetadataLine(l, m.meta)]
       ELSE IF ~m.in_data THEN next
       ELSE IF Float(l.x) = "" \/ Float(l.y) = ""
       THEN [next EXCEPT !.pc = "raised", !.err = "ValueError"]
       ELSE [next EXCEPT !.xs = Append(@, Float(l.x)), !.ys = Append(@, Float(l.y))]

\* emsa.py lines 129-144: one line of the file
EmLine ==
    /\ pc = "msa"
    /\ msa.impl = "emsa" /\ msa.pc = "read"
    /\ msa.k < Len(msa.lines)
    /\ msa' = EmRead(msa)
    /\ UNCHANGED exceptMsa

\* emsa.py lines 123-145: the whole call, from the locals m on
RECURSIVE EmRun(_)
EmRun(m) ==
    IF m.pc # "read" THEN m
    ELSE IF m.k < Len(m.lines) THEN EmRun(EmRead(m))
    ELSE [m EXCEPT !.pc = "done"]

\* emsa.py line 145: the two arrays and the metadata are returned
EmFinish ==
    /\ pc = "msa"
    /\ msa.impl = "emsa" /\ msa.pc = "read"
    /\ msa.k = Len(msa.lines)
    /\ msa' = [msa EXCEPT !.pc = "done"]
    /\ UNCHANGED exceptMsa

InitMsa ==
    /\ pc = "msa"
    /\ \E impl \in {"io", "emsa"}, lines \in UNION {[1..m -> LineSet] : m \in 0..MaxLines} :
        msa = [NoMsa EXCEPT !.impl = impl, !.lines = lines, !.pc = "read"]
    /\ PeaksIdle
    /\ BaselineIdle
    /\ ar = NoArpls /\ sm = NoSmooth /\ sp = NoSpectrum /\ img = NoImg

NextMsa ==
    \/ IoLine
    \/ IoFinish
    \/ EmLine
    \/ EmFinish

SpecMsa == InitMsa /\ [][NextMsa]_vars

\* --------------------------------------------------------- parse_img_name
\* A str is the sequence of its characters, each a string of length one.

\* the position of the first c in s, 0 if there is none
Find(s, c) ==
    IF \E k \in DOMAIN s : s[k] = c
    THEN CHOOSE k \in DOMAIN s : s[k] = c /\ \A j \in 1..(k - 1) : s[j] # c
    ELSE 0

\* the position of the last c in s, 0 if there is none
RFind(s, c) ==
    IF \E k \in DOMAIN s : s[k] = c
    THEN CHOOSE k \in DOMAIN s : s[k] = c /\ \A j \in (k + 1)..Len(s) : s[j] # c
    ELSE 0

\* s.replace(a, b) for characters a and b
Replace(s, a, b) == [k \in DOMAIN s |-> IF s[k] = a THEN b ELSE s[k]]

\* s.split(c): the pieces of s between the occurrences of c, empty pieces included
RECURSIVE Split(_, _)
Split(s, c) ==
    IF Find(s, c) = 0 THEN <<s>>
    ELSE <<SubSeq(s, 1, Find(s, c) - 1)>> \o Split(SubSeq(s, Find(s, c) + 1, Len(s)), c)

\* c.join(parts)
RECURSIVE Join(_, _)
Join(parts, c) ==
    IF parts = <<>> THEN <<>>
    ELSE IF Len(parts) = 1 THEN parts[1]
    ELSE parts[1] \o <<c>> \o Join(Tail(parts), c)

\* Path(fp).stem: the name up to its last dot, the whole name when it has no dot or
\* only a leading or a trailing one
Stem(name) ==
    IF RFind(name, ".") > 1 /\ RFind(name, ".") < Len(name)
    THEN SubSeq(name, 1, RFind(name, ".") - 1)
    ELSE name

\* zlib.py line 132: "_".join(note) if note else ""
Note(parts) == Join(SubSeq(parts, 6, Len(parts)), "_")

\* zlib.py lines 110-115: the stem is split at "_" after every "-" became "_"; fewer
\* than five pieces is a ValueError
ImgSplit ==
    /\ pc = "img"
    /\ img.pc = "call"
    /\ LET parts == Split(Replace(Stem(img.name), "-", "_"), "_")
       IN img' = IF Len(parts) < 5
                 THEN [img EXCEPT !.pc = "raised", !.err = "ValueError"]
                 ELSE [img EXCEPT !.parts = parts, !.pc = "unpack"]
    /\ UNCHANGED exceptImg

\* zlib.py lines 117-122: zak_vz.split("v") is unpacked into two names and mik_obj[0]
\* is read; any exception becomes a ValueError
ImgUnpack ==
    /\ pc = "img"
    /\ img.pc = "unpack"
    /\ img' = IF Len(Split(img.parts[1], "v")) # 2 \/ img.parts[4] = <<>>
              THEN [img EXCEPT !.pc = "raised", !.err = "ValueError"]
              ELSE [img EXCEPT !.pc = "build"]
    /\ UNCHANGED exceptImg

\* zlib.py lines 124-133: the ImgParams returned
ImgReturn ==
    /\ pc = "img"
    /\ img.pc = "build"
    /\ img' = [img EXCEPT
                 !.out = [zak |-> Split(img.parts[1], "v")[1],
                          vz |-> Split(img.parts[1], "v")[2],
                          mod |-> img.parts[2],
                          typ |-> img.parts[3],
                          mik |-> <<img.parts[4][1]>>,
                          obj |-> Tail(img.parts[4]),
                          fileid |-> img.parts[5],
                          note |-> Note(img.parts)],
                 !.pc = "done"]
    /\ UNCHANGED exceptImg

\* the tokens a file name is made of: position 1 holds the order and sample numbers,
\* position 4 the microscope and objective, the others free text
Tokens(k) ==
    IF k = 1 THEN <<(<<"1", "v", "2">>), (<<"1", "2">>)>>
    ELSE IF k = 4 THEN <<(<<"M", "4">>), <<>>>>
    ELSE IF k <= 5 THEN <<(<<"a">>), (<<"a">>)>>
    ELSE <<(<<"a">>), (<<"b">>)>>

\* the tokens toks joined by the separators seps
RECURSIVE Glue(_, _)
Glue(toks, seps) ==
    IF Len(toks) = 1 THEN toks[1]
    ELSE toks[1] \o <<seps[1]>> \o Glue(Tail(toks), Tail(seps))

\* the file names: 3 .. MaxTokens tokens, each two joined by "_" or "-", followed by
\* an extension or not
ImgNames ==
    UNION {{Glue([k \in 1..m |-> Tokens(k)[pick[k]]], seps) \o ext :
                pick \in [1..m -> 1..2],
                seps \in [1..(m - 1) -> {"_", "-"}],
                ext \in {<<>>, <<".", "p">>}} : m \in 3..MaxTokens}

InitImg ==
    /\ pc = "img"
    /\ \E name \in ImgNames : img = [NoImg EXCEPT !.name = name, !.pc = "call"]
    /\ PeaksIdle
    /\ BaselineIdle
    /\ ar = NoArpls /\ sm = NoSmooth /\ sp = NoSpectrum /\ msa = NoMsa

NextImg ==
    \/ ImgSplit
    \/ ImgUnpack
    \/ ImgReturn

SpecImg == InitImg /\ [][NextImg]_vars

\* ------------------------------------------------------------------ claims
\* the caller's negated signal -y
Negated(y) == [k \in DOMAIN y |-> Neg(y[k])]

\* the positions (0-based) of the nonzero samples of a
NonZero(a) == {k - 1 : k \in {j \in DOMAIN a : a[j] # Fin(0)}}

\* the default parameters of detect_peaks
Defaults ==
    mph = None /\ mpd = 1 /\ threshold = 0 /\ edge = "rising" /\ ~kpsh /\ ~valley

\* every two returned indices are more than d apart
Spaced(r, d) == \A p, q \in DOMAIN r : p < q => r[q] - r[p] > d

\* C1: valley mode symmetry. A call on y with valley set returns what a call on the
\* negated signal -y returns with valley unset (and the other way round), the other
\* parameters being the same: the returned sequence is one the other call returns,
\* and the two calls have the same possible results.
C1_ValleySymmetry ==
    pc = "done" =>
        LET onNegated ==
                DetectPeaks(Negated(signal), mph, mpd, threshold, edge, kpsh, ~valley)
        IN  /\ ret \in onNegated
            /\ DetectPeaks(signal, mph, mpd, threshold, edge, kpsh, valley) = onNegated

\* C1 witness: a valley call that found valleys after the minimum-distance step ran
C1_Witness == pc = "done" /\ valley /\ mpd > 1 /\ Len(ret) >= 1 /\ i >= 2

\* C2 as claimed: with kpsh false and any mpd >= 1, two returned indices differ by
\* more than mpd.
C2_Original == (pc = "done" /\ ~kpsh /\ mpd >= 1) => Spaced(ret, mpd)

\* C2 amended: with kpsh false and mpd >= 2, two returned indices differ by more than
\* mpd (every other candidate within mpd samples of a kept one is removed).
C2_MinDistance == (pc = "done" /\ ~kpsh /\ mpd >= 2) => Spaced(ret, mpd)

\* C2 witness: two peaks survive the step, a third candidate having been removed
C2_Witness ==
    /\ pc = "done" /\ ~kpsh /\ mpd >= 2
    /\ Len(ret) >= 2
    /\ \E k \in DOMAIN idel : idel[k]

\* C3 as claimed: a unit impulse at any position p of a zero signal of length >= 5
\* is returned, alone, under the default parameters.
C3_Original ==
    \A p \in 0..(Len(signal) - 1) :
        (pc = "done" /\ Defaults /\ Len(signal) >= 5
            /\ NonZero(signal) = {p} /\ At(signal, p) = Fin(1))
        => ret = <<p>>

\* C3 amended: a unit impulse at an interior position p (0 < p < N - 1) of a zero
\* signal of length N >= 5 is returned, alone, under the default parameters.
C3_InteriorImpulse ==
    \A p \in 1..(Len(signal) - 2) :
        (pc = "done" /\ Defaults /\ Len(signal) >= 5
            /\ NonZero(signal) = {p} /\ At(signal, p) = Fin(1))
        => ret = <<p>>

\* C3 witness: the impulse next to the end of a signal longer than 5 has been returned
C3_Witness ==
    /\ pc = "done" /\ Defaults /\ Len(signal) > 5
    /\ NonZero(signal) = {Len(signal) - 2}
    /\ At(signal, Len(signal) - 2) = Fin(1)
    /\ ret = <<Len(signal) - 2>>

\* the signal is zero but for two impulses of one height at interior a and a + 2
EqualImpulses(a) ==
    /\ a >= 1 /\ a + 2 <= Len(signal) - 2
    /\ NonZero(signal) = {a, a + 2}
    /\ IsFinite(At(signal, a)) /\ At(signal, a) = At(signal, a + 2)
    /\ mph = None /\ threshold = 0 /\ edge = "rising" /\ ~kpsh /\ ~valley

\* C4: distance suppression on ties. Of two equal impulses at interior a and a + 2,
\* mpd = 5 returns exactly one, the one the descending sort put first (a function of
\* the input), and mpd = 1 returns both.
C4_TieSuppression ==
    \A a \in 1..(Len(signal) - 2) :
        EqualImpulses(a) =>
            /\ (pc = "done" /\ mpd = 5) => (Len(ret) = 1 /\ ret[1] \in {a, a + 2})
            /\ (pc = "loop" /\ i = Len(ind) /\ mpd = 5) => SortKept(ind, idel) = <<ind[1]>>
            /\ (pc = "done" /\ mpd = 1) => ret = <<a, a + 2>>

\* C4 witness: mpd = 5 has removed one of the two equal impulses
C4_Witness ==
    /\ pc = "done" /\ mpd = 5 /\ Len(ret) = 1
    /\ \E a \in 1..(Len(signal) - 2) : EqualImpulses(a)

\* C5: height filter. With mph given and valley false every returned index has a
\* sample >= mph; the height step drops no candidate whose sample is >= mph; and of
\* two impulses of heights 1 and 2, mph = 2 returns the index of the height-2 one only.
C5_HeightFilter ==
    /\ [](pc = "done" /\ mph # None /\ ~valley
            => \A k \in DOMAIN ret : Ge(At(signal, ret[k]), mph))
    /\ [][(pc = "mph" /\ mph # None /\ ~valley)
            => \A k \in DOMAIN ind : Ge(At(x, ind[k]), mph) => ind[k] \in Elems(ind')]_vars
    /\ [](\A a, b \in 1..(Len(signal) - 2) :
            (pc = "done" /\ mph = Fin(2) /\ mpd = 1 /\ threshold = 0 /\ edge = "rising"
                /\ ~valley /\ NonZero(signal) = {a, b}
                /\ At(signal, a) = Fin(1) /\ At(signal, b) = Fin(2))
            => ret = <<b>>)

\* C5 witness: mph = 2 has returned the height-2 impulse and dropped the height-1 one
C5_Witness ==
    /\ pc = "done" /\ mph = Fin(2) /\ mpd = 1 /\ threshold = 0 /\ edge = "rising" /\ ~valley
    /\ \E a, b \in 1..(Len(signal) - 2) :
        /\ NonZero(signal) = {a, b}
        /\ At(signal, a) = Fin(1) /\ At(signal, b) = Fin(2)
        /\ ret = <<b>>

\* C6: empty and short input. A call on 0, 1 or 2 samples returns at once, with an
\* empty index sequence, whatever the other parameters.
C6_ShortInput == (Len(signal) < 3 /\ pc # "call") => (pc = "done" /\ ret = <<>>)

\* C6 witness: a call on two samples with every filter asked for has returned
C6_Witness ==
    /\ pc = "done" /\ Len(signal) = 2 /\ ret = <<>>
    /\ mph # None /\ mpd > 1 /\ threshold > 0 /\ kpsh

\* C7: PeakSet shape. The returned sequence is strictly increasing and holds
\* neither index 0 nor index N - 1.
C7_PeakSetShape ==
    pc = "done" =>
        /\ \A p, q \in DOMAIN ret : p < q => ret[p] < ret[q]
        /\ \A p \in DOMAIN ret : ret[p] # 0 /\ ret[p] # Len(signal) - 1

\* C7 witness: two indices returned after the minimum-distance step, which had put
\* the later one first
C7_Witness ==
    /\ pc = "done" /\ mpd > 1 /\ Len(ret) >= 2
    /\ Len(idel) >= 2 /\ Gt(At(x, ret[2]), At(x, ret[1]))

\* C8 as claimed: no returned index is the position of a non-finite sample (NaN or
\* an infinity) or next to one.
C8_Original ==
    pc = "done" =>
        \A k \in DOMAIN ret :
            \A q \in {ret[k] - 1, ret[k], ret[k] + 1} : IsFinite(At(signal, q))

\* C8 amended: no returned index is the position of a NaN sample or next to one.
C8_NanExcluded ==
    pc = "done" =>
        \A k \in DOMAIN ret :
            \A q \in {ret[k] - 1, ret[k], ret[k] + 1} : ~IsNan(At(signal, q))

\* C8 witness: a signal with a NaN sample, whose right-hand neighbour was a candidate
\* by its differences, and a returned peak elsewhere
C8_Witness ==
    /\ pc = "done" /\ ret # <<>>
    /\ \E q \in 0..(Len(signal) - 2) :
        /\ IsNan(At(signal, q))
        /\ q + 1 \in Elems(EdgeCandidates(NanToInf(Diff(ValleyFlip(signal, valley)), {q}),
                                          Len(signal), edge))

\* C9: purity. No step of a call changes the caller's array, whether the call
\* negates, replaces NaN samples or takes the plot path.
C9_Purity == [][signal' = signal]_vars

\* C9 witness: a call without negation has returned, its own array holding infinity
\* where the caller's array holds NaN
C9_Witness ==
    /\ pc = "done" /\ ~valley
    /\ \E k \in DOMAIN signal : IsNan(signal[k]) /\ x[k] = PInf

\* C10 as claimed: baseline non-negativity. Whenever baseline_correction returns,
\* every element of the stored signal is >= the floor 1e-10.
C10_Original ==
    (pc = "done" /\ bc.niter >= 1) => \A k \in DOMAIN self_y : Ge(self_y[k], Floor)

\* C11 as claimed: degenerate configuration rejection. In each of the three variants
\* a call with an iteration cap below 1 ends in an error, with no penalty matrix built
\* and no solve performed.
C11_Original ==
    /\ (pc \in {"bc_loop", "bc_post"} => bc.niter >= 1)
    /\ (bc.niter < 1 => bc.D = <<>> /\ bc.it = 0)
    /\ \A v \in {ar.b, ar.c} :
        (pc = "variants" /\ ar.niter < 1 /\ v.pc # "call")
        => (v.pc = "raised" /\ v.D = <<>> /\ v.H = <<>> /\ v.solves = 0)

\* the first iteration among 1 .. n whose relative weight change is below ratio, 0 if none
FirstBelow(n) ==
    LET below == {k \in 1..n : Lt(ar.crits[k], ar.ratio)}
    IN IF below = {} THEN 0 ELSE CHOOSE k \in below : \A j \in below : k <= j

\* C13 as claimed: numerical degeneracy in Variant A. baseline_subtract_classic fails
\* after its iterations exactly when every element of the corrected output is
\* non-finite (NaN or infinite), and returns the output when one element is finite.
C13_Original ==
    (pc \in {"raised", "bc_post"} /\ bc.niter >= 1) =>
        (pc = "raised" <=> \A k \in DOMAIN bc.corr : ~IsFinite(bc.corr[k]))

\* C14: Variant B iteration policy. With niter >= 1, baseline_subtract_arpls goes on
\* while no relative weight change was below ratio and leaves the loop right after the
\* first that is; if none of the niter iterations has one it prints the warning, raises
\* nothing and returns the estimate of the last iteration; it warns in no other case;
\* it performs one solve an iteration, niter at most.
C14_ArplsPolicy ==
    (pc = "variants" /\ ar.niter >= 1) =>
        /\ ar.b.pc # "raised"
        /\ ar.b.solves = ar.b.it /\ ar.b.solves <= ar.niter
        /\ ar.b.pc = "loop" => (FirstBelow(ar.b.it) = 0 /\ ~ar.b.warned)
        /\ ar.b.pc \in {"return", "done"} =>
            /\ ar.b.z = ar.b.it
            /\ IF FirstBelow(ar.niter) # 0
               THEN ar.b.it = FirstBelow(ar.niter) /\ ~ar.b.warned
               ELSE ar.b.it = ar.niter /\ ar.b.warned
        /\ ar.b.pc = "done" => (ar.b.out = ar.b.it /\ ar.b.err = "")

\* C14 witness: three iterations without convergence, one of them with a NaN change,
\* then the warning and the third estimate returned
C14_Witness ==
    /\ pc = "variants" /\ ar.niter = 3 /\ ar.b.pc = "done"
    /\ ar.b.warned /\ ar.b.out = 3
    /\ ar.ratio = Fin(1) /\ \E k \in 1..3 : IsNan(ar.crits[k])

\* C15 as claimed: Variant C follows the policy of Variant B. With the same relative
\* weight changes, cap and ratio, baseline_subtract_arpls_cholesky performs as many
\* iterations as baseline_subtract_arpls, warns when it does, and returns the same
\* estimate.
C15_Original ==
    (pc = "variants" /\ ar.niter >= 1 /\ ar.b.pc = "done"
        /\ ar.c.pc \notin {"call", "loop", "return"})
    => (ar.c.pc = "done" /\ ar.c.it = ar.b.it /\ ar.c.warned = ar.b.warned
        /\ ar.c.out = ar.b.out)

\* M is the L x (L - 2) second-order difference operator: column j holds 1, -2, 1 in
\* rows j, j + 1, j + 2 and zero elsewhere
IsStencil(M, L) ==
    /\ M.rows = L /\ M.cols = L - 2
    /\ \A r \in 1..L, c \in 1..(L - 2) :
        M.e[r][c] = (IF r = c \/ r = c + 2 THEN 1 ELSE IF r = c + 1 THEN -2 ELSE 0)

\* H is lam * D * D-transpose
IsPenalty(H, lam, M) ==
    /\ H.rows = M.rows /\ H.cols = M.rows
    /\ \A r, c \in 1..M.rows :
        H.e[r][c] = lam * SumSeq([k \in 1..M.cols |-> M.e[r][k] * M.e[c][k]])

\* C16 as claimed: the penalty operator. In every variant D is the L x (L - 2)
\* second-order difference operator and the regularisation matrix is lam * D * D-transpose.
C16_Original ==
    /\ bc.D # <<>> => IsStencil(bc.D, Len(self_y))
    /\ \A v \in {ar.b, ar.c} :
        (pc = "variants" /\ v.D # <<>>)
        => (IsStencil(v.D, ar.L) /\ IsPenalty(v.H, ar.lam, v.D))

\* C12: smoothing window validation. In the free function and in the method a window
\* size below 1 ends the call with a ValueError, no filter having run and nothing
\* returned or stored.
C12_WindowValidation ==
    (pc = "smooth" /\ sm.n < 1 /\ sm.pc # "call") =>
        /\ sm.pc = "raised" /\ sm.err = "ValueError"
        /\ sm.calls = 0 /\ sm.out = <<>>
        /\ \A k \in DOMAIN sm.y : sm.y[k] \in 0..2

\* C12 witness: the free function has rejected window size 0 on a three-sample array
C12_Witness ==
    /\ pc = "smooth" /\ sm.impl = "free" /\ sm.n = 0 /\ Len(sm.y) = 3
    /\ sm.pc = "raised" /\ sm.err = "ValueError"

\* C17 as claimed: Variant A weight update. After every reweighting step each weight
\* is p or 1 - p.
C17_Original ==
    (pc \in {"bc_loop", "bc_post", "raised"} /\ bc.it >= 1) =>
        \A k \in DOMAIN bc.w : bc.w[k] \in {"p", "1-p"}

\* C17 amended: after every reweighting step the weight of a sample is p if the sample
\* is above the current estimate, 1 - p if it is below, and 0 otherwise (the sample
\* equals the estimate, or one of the two is NaN).
C17_WeightUpdate ==
    (pc \in {"bc_loop", "bc_post", "raised"} /\ bc.it >= 1) =>
        \A k \in DOMAIN bc.w :
            /\ bc.w[k] \in {"p", "1-p", "zero"}
            /\ bc.w[k] = "p" <=> Gt(self_y[k], bc.z[k])
            /\ bc.w[k] = "1-p" <=> Lt(self_y[k], bc.z[k])

\* C17 witness: a reweighting step has given one sample each of the three weights
C17_Witness ==
    /\ pc = "bc_loop" /\ bc.it >= 1
    /\ \A v \in {"p", "1-p", "zero"} : \E k \in DOMAIN bc.w : bc.w[k] = v
    /\ \E k \in DOMAIN bc.w : bc.w[k] = "zero" /\ self_y[k] = bc.z[k]

\* x and y have one length and x is strictly increasing
WellFormed(xx, yy) ==
    /\ Len(xx) = Len(yy)
    /\ \A j, k \in DOMAIN xx : j < k => Lt(xx[j], xx[k])

\* C19: malformed spectra are rejected at construction. A constructor call (direct, or
\* made by parse_msa_file, copy, baseline_correct or tidy_spectrum) on arrays of
\* different lengths or on an x that is not strictly increasing raises ValueError, and
\* every Spectrum constructed has x and y of one length and a strictly increasing x.
C19_Construction ==
    pc = "spectrum" =>
        /\ \A k \in DOMAIN sp.made : WellFormed(sp.made[k].x, sp.made[k].y)
        /\ (sp.tried /\ ~WellFormed(sp.args[1], sp.args[2]))
            => (sp.pc = "raised" /\ sp.err = "ValueError")
        /\ sp.pc = "done" => (sp.made # <<>> /\ sp.err = "")

\* C19 witness: tidy_spectrum, with a window longer than the signal, has been refused
\* the smoothed spectrum, whose y is longer than its x
C19_Witness ==
    /\ pc = "spectrum" /\ sp.via = "tidy" /\ sp.pc = "raised" /\ sp.tried
    /\ Len(sp.args[1]) = 2 /\ Len(sp.args[2]) = 3
    /\ WellFormed(sp.x, sp.y)

\* the number a piece of text spells
Value(t) == CASE t.s = "0" -> Fin(0) [] t.s = "1" -> Fin(1) [] t.s = "5" -> Fin(5) [] t.s = "7" -> Fin(7)

\* the line starts with '#SPECTRUM' (in either letter case, as the parsers compare it)
StartsData(l) == l.kind = "hash" /\ l.hashes = 1 /\ l.word.s = "SPECTRUM"

\* the position of the first marker line, past the end if there is none
FirstMarker(lines) ==
    LET at == {j \in DOMAIN lines : StartsData(lines[j])}
    IN IF at = {} THEN Len(lines) + 1 ELSE CHOOSE j \in at : \A q \in at : j <= q

\* the lines after the first marker that are neither blank nor '#' lines, in file order
DataLines(lines) ==
    Compress(lines, [j \in DOMAIN lines |-> j > FirstMarker(lines) /\ lines[j].kind = "text"])

Written(name) == Split(Stem(name), "_")

\* name has the form ZAKvVZ_MOD_TYP_MOBJ_FILEID_NOTE.ext: its first five fields are
\* closed by "_" and hold no "-"
HasNote(name) ==
    /\ Len(Written(name)) >= 6
    /\ \A k \in 1..5 : Find(Written(name)[k], "-") = 0

\* C21: for a file name of the form ZAKvVZ_MOD_TYP_MOBJ_FILEID_NOTE.ext, the ImgParams
\* that parse_img_name returns has zak and vz from the first token, obj from the
\* fourth token, and a note equal to the NOTE text of the file name as written
C21_Original ==
    (pc = "img" /\ img.pc = "done" /\ HasNote(img.name)) =>
        /\ img.out.zak \o <<"v">> \o img.out.vz = Written(img.name)[1]
        /\ img.out.obj = Tail(Written(img.name)[4])
        /\ img.out.note = Join(SubSeq(Written(img.name), 6, Len(Written(img.name))), "_")

\* positions p and q are within d samples of each other
Near(p, q, d) == p - q <= d /\ q - p <= d

\* C22: ties survive under keep_equal_height. With kpsh set and mpd > 1, a candidate
\* that passed the height and threshold filters is marked for removal only when a
\* candidate of strictly greater amplitude within mpd samples of it was processed and
\* is kept, and it is missing from the result only if a returned candidate of strictly
\* greater amplitude lies within mpd samples of it; candidates of equal amplitude
\* never remove one another.
C22_TiesSurvive ==
    (pc = "loop" /\ kpsh) =>
        /\ \A j \in DOMAIN ind :
            idel[j] => \E k \in 1..i :
                           /\ ~idel[k]
                           /\ Near(ind[k], ind[j], mpd)
                           /\ Gt(At(x, ind[k]), At(x, ind[j]))
        /\ i = Len(ind) =>
            \A j \in DOMAIN ind :
                ind[j] \notin Elems(SortKept(ind, idel)) =>
                    \E r \in Elems(SortKept(ind, idel)) :
                        Near(r, ind[j], mpd) /\ Gt(At(x, r), At(x, ind[j]))

\* C22 witness: the loop has ended with one candidate removed and two candidates of
\* equal amplitude within mpd samples of each other kept
C22_Witness ==
    /\ pc = "loop" /\ kpsh /\ i = Len(ind)
    /\ \E j \in DOMAIN ind : idel[j]
    /\ \E p, q \in DOMAIN ind :
        /\ p # q /\ ~idel[p] /\ ~idel[q]
        /\ Near(ind[p], ind[q], mpd) /\ At(x, ind[p]) = At(x, ind[q])

\* C23: highest-amplitude-wins suppression. With kpsh false, every candidate removed by
\* the minimum-distance step lies within mpd samples of a candidate that is returned
\* and whose amplitude is greater than or equal to its own; a candidate once kept is
\* never removed by a candidate processed later (the marks of the processed candidates
\* never change), and a removed candidate never removes others.
C23_GreedySuppression ==
    /\ []((pc = "loop" /\ ~kpsh) =>
            /\ \A j \in DOMAIN ind :
                idel[j] => \E k \in 1..i :
                               /\ ~idel[k]
                               /\ Near(ind[k], ind[j], mpd)
                               /\ Ge(At(x, ind[k]), At(x, ind[j]))
            /\ i = Len(ind) =>
                \A j \in DOMAIN ind :
                    ind[j] \notin Elems(SortKept(ind, idel)) =>
                        \E r \in Elems(SortKept(ind, idel)) :
                            Near(r, ind[j], mpd) /\ Ge(At(x, r), At(x, ind[j])))
    /\ [][(pc = "loop" /\ ~kpsh /\ i < Len(ind)) =>
            /\ \A j \in 1..i : idel'[j] = idel[j]
            /\ ~idel'[i + 1] => ~idel[i + 1]
            /\ idel[i + 1] => idel' = idel]_vars

\* C23 witness: of three candidates the first processed removed the second, and the
\* third, within mpd samples of the removed one only, is kept
C23_Witness ==
    /\ pc = "loop" /\ ~kpsh /\ i = Len(ind) /\ Len(ind) = 3
    /\ ~idel[1] /\ idel[2] /\ ~idel[3]
    /\ Near(ind[2], ind[3], mpd) /\ ~Near(ind[1], ind[3], mpd)

\* position p of the working array x is neither its first nor its last, and meets the
\* minimum height and the threshold asked for
PassedFilters(p) ==
    /\ p # 0 /\ p # Len(x) - 1
    /\ mph # None => Ge(At(x, p), mph)
    /\ threshold > 0 =>
        /\ Ge(Sub(At(x, p), At(x, p - 1)), Fin(threshold))
        /\ Ge(Sub(At(x, p), At(x, p + 1)), Fin(threshold))

\* the edge candidates of the call, before any filter
EdgeFound == Elems(EdgeCandidates(Diff(ValleyFlip(signal, valley)), Len(signal), edge))

\* C24: filter order. The minimum-distance step operates only on candidates that
\* already passed the first/last-index, mph and threshold filters: every candidate it
\* sorts, marks or keeps passed them, every mark is due to a kept candidate that passed
\* them, and an edge candidate that passed them is missing from the result only if a
\* returned index lies within mpd samples of it. So a candidate rejected by mph or by
\* threshold never causes another to be removed.
C24_FilterOrder ==
    /\ pc = "loop" =>
        /\ \A j \in DOMAIN ind : PassedFilters(ind[j])
        /\ \A j \in DOMAIN ind :
            idel[j] => \E k \in 1..i :
                           ~idel[k] /\ Near(ind[k], ind[j], mpd) /\ PassedFilters(ind[k])
    /\ (pc = "done" /\ Len(signal) >= 3 /\ indnan = {}) =>
        /\ \A k \in DOMAIN ret : ret[k] \in EdgeFound /\ PassedFilters(ret[k])
        /\ \A p \in EdgeFound :
            (PassedFilters(p) /\ p \notin Elems(ret)) =>
                mpd > 1 /\ \E k \in DOMAIN ret : Near(ret[k], p, mpd)

\* C24 witness: an edge candidate rejected by the threshold is higher than a returned
\* index within mpd samples of it, the minimum-distance step having run
C24_Witness ==
    /\ pc = "done" /\ mpd > 1 /\ threshold > 0 /\ Len(idel) >= 1
    /\ \E p \in EdgeFound, k \in DOMAIN ret :
        /\ ~PassedFilters(p)
        /\ Near(ret[k], p, mpd)
        /\ Gt(At(x, p), At(x, ret[k]))

\* every sample of a is finite
AllFinite(a) == \A k \in DOMAIN a : IsFinite(a[k])

\* C25: threshold filter. With threshold t > 0, valley unset and finite samples, every
\* returned index i has signal[i] - signal[i-1] >= t and signal[i] - signal[i+1] >= t;
\* in particular no returned index has a sample equal to one of its neighbours.
C25_ThresholdFilter ==
    (pc = "done" /\ threshold > 0 /\ ~valley /\ AllFinite(signal)) =>
        \A k \in DOMAIN ret :
            /\ Ge(Sub(At(signal, ret[k]), At(signal, ret[k] - 1)), Fin(threshold))
            /\ Ge(Sub(At(signal, ret[k]), At(signal, ret[k] + 1)), Fin(threshold))
            /\ At(signal, ret[k]) # At(signal, ret[k] - 1)
            /\ At(signal, ret[k]) # At(signal, ret[k] + 1)

\* C25 witness: with a threshold, a peak has been returned and the edge of a plateau,
\* an edge candidate, has not
C25_Witness ==
    /\ pc = "done" /\ threshold > 0 /\ ~valley /\ AllFinite(signal) /\ mpd = 1
    /\ ret # <<>>
    /\ \E p \in EdgeFound :
        /\ p \notin Elems(ret) /\ p + 1 <= Len(signal) - 1
        /\ At(signal, p) = At(signal, p + 1)

\* the last position of the maximal run of equal samples of a that holds position p
RunEnd(a, p) ==
    CHOOSE q \in p..(Len(a) - 1) :
        /\ \A r \in p..q : At(a, r) = At(a, p)
        /\ q + 1 <= Len(a) - 1 => At(a, q + 1) # At(a, p)

\* p is the first position of a plateau of a: of a maximal run of equal samples with a
\* strictly lower sample immediately before it and immediately after it
IsPlateauStart(a, p) ==
    /\ p >= 1 /\ Lt(At(a, p - 1), At(a, p))
    /\ RunEnd(a, p) + 1 <= Len(a) - 1
    /\ Lt(At(a, RunEnd(a, p) + 1), At(a, p))

\* the call is one on finite samples with edge = "rising" and no other filter
RisingOnly ==
    /\ edge = "rising" /\ mph = None /\ threshold = 0 /\ mpd = 1 /\ ~valley
    /\ AllFinite(signal) /\ Len(signal) >= 3

\* C26 as claimed: with edge = "rising" and no other filter, every returned index is
\* the first index of a plateau.
C26_Original ==
    (pc = "done" /\ RisingOnly) => \A k \in DOMAIN ret : IsPlateauStart(signal, ret[k])

\* C26 amended: with edge = "rising" and no other filter, every returned index i is
\* interior and the first index of a maximal run of equal samples with a strictly
\* lower sample immediately before the run (signal[i-1] < signal[i] >= signal[i+1]);
\* the sample after the run may be lower (a plateau), higher (a step) or missing (the
\* run reaches the end of the signal). Every first index of a plateau is returned.
C26_RisingEdge ==
    (pc = "done" /\ RisingOnly) =>
        /\ \A k \in DOMAIN ret :
            /\ ret[k] >= 1 /\ ret[k] <= Len(signal) - 2
            /\ Lt(At(signal, ret[k] - 1), At(signal, ret[k]))
            /\ Le(At(signal, ret[k] + 1), At(signal, ret[k]))
        /\ \A p \in 0..(Len(signal) - 1) :
            IsPlateauStart(signal, p) => p \in Elems(ret)

\* C26 witness: the call has returned the first index of a plateau and the first
\* index of a run two samples wide that is followed by a higher sample
C26_Witness ==
    /\ pc = "done" /\ RisingOnly
    /\ \E k \in DOMAIN ret : IsPlateauStart(signal, ret[k])
    /\ \E k \in DOMAIN ret :
        /\ RunEnd(signal, ret[k]) > ret[k]
        /\ RunEnd(signal, ret[k]) + 1 <= Len(signal) - 1
        /\ Gt(At(signal, RunEnd(signal, ret[k]) + 1), At(signal, ret[k]))

\* the indices a call with the edge mode e and mpd = 1 returns, the other arguments
\* being those of the running call
ReturnedWith(e) == UNION {Elems(r) : r \in DetectPeaks(signal, mph, 1, threshold, e, kpsh, valley)}

\* with edge = "both" and mpd = 1 the indices returned are those returned with
\* edge = "rising" together with those returned with edge = "falling"
BothIsUnion ==
    (pc = "done" /\ edge = "both" /\ mpd = 1) =>
        Elems(ret) = ReturnedWith("rising") \cup ReturnedWith("falling")

\* C27 as claimed: edge = "both" is the union of the two edge modes, for any signal
\* and any mph and threshold, with mpd = 1; and for a flat-topped peak of width >= 2
\* the call returns both the first and the last index of the plateau.
C27_Original ==
    /\ BothIsUnion
    /\ (pc = "done" /\ edge = "both" /\ mpd = 1 /\ ~valley /\ AllFinite(signal)) =>
        \A p \in 1..(Len(signal) - 2) :
            (IsPlateauStart(signal, p) /\ RunEnd(signal, p) > p) =>
                p \in Elems(ret) /\ RunEnd(signal, p) \in Elems(ret)

\* C27 amended: edge = "both" is the union of the two edge modes, for any signal and
\* any mph and threshold, with mpd = 1; and for a flat-topped peak of width >= 2 whose
\* height is at least mph, the call returns both the first and the last index of the
\* plateau when threshold is 0, and neither when threshold > 0.
C27_BothEdges ==
    /\ BothIsUnion
    /\ (pc = "done" /\ edge = "both" /\ mpd = 1 /\ ~valley /\ AllFinite(signal)) =>
        \A p \in 1..(Len(signal) - 2) :
            (IsPlateauStart(signal, p) /\ RunEnd(signal, p) > p
                /\ (mph # None => Ge(At(signal, p), mph))) =>
                IF threshold = 0
                THEN p \in Elems(ret) /\ RunEnd(signal, p) \in Elems(ret)
                ELSE p \notin Elems(ret) /\ RunEnd(signal, p) \notin Elems(ret)

\* C27 witness: a call with edge = "both" and a minimum height has returned the two
\* ends of a plateau, one from each edge mode
C27_Witness ==
    /\ pc = "done" /\ edge = "both" /\ mpd = 1 /\ ~valley /\ AllFinite(signal)
    /\ mph # None /\ threshold = 0
    /\ \E p \in 1..(Len(signal) - 2) :
        /\ IsPlateauStart(signal, p) /\ RunEnd(signal, p) > p
        /\ p \in Elems(ret) /\ p \notin ReturnedWith("falling")
        /\ RunEnd(signal, p) \in Elems(ret) /\ RunEnd(signal, p) \notin ReturnedWith("rising")

\* a call of baseline_subtract_classic with niter >= 1 runs its loop to the end: the
\* count of solve-and-reweight iterations never passes niter, every step in the loop
\* is one more iteration, and the loop is left with exactly niter iterations done
FixedCount ==
    /\ []((bc.niter >= 1 /\ pc = "bc_loop") => bc.it <= bc.niter)
    /\ []((bc.niter >= 1 /\ pc \in {"bc_post", "raised", "done"}) => bc.it = bc.niter)
    /\ [][(pc = "bc_loop" /\ bc.it < bc.niter) =>
            (pc' = "bc_loop" /\ bc'.it = bc.it + 1 /\ bc'.w = Reweight(self_y, bc'.z))]_vars
    /\ [][(pc = "bc_loop" /\ pc' # "bc_loop") => bc.it = bc.niter]_vars

\* C28 as claimed: Variant A runs a fixed iteration count. For niter >= 1,
\* baseline_subtract_classic performs exactly niter solve-and-reweight iterations on
\* every input, with no early exit, and then terminates returning the signal minus the
\* estimate of the niter-th solve.
C28_Original ==
    /\ FixedCount
    /\ (bc.niter >= 1 /\ pc = "bc_call") ~> (pc = "bc_post")
    /\ [](pc = "bc_post" => bc.corr = Subtract(self_y, bc.z))

\* C28 amended: for niter >= 1, baseline_subtract_classic performs exactly niter
\* solve-and-reweight iterations on every input, with no early exit, and then
\* terminates: it returns the signal minus the estimate of the niter-th solve, unless
\* every element of that difference is NaN, in which case it raises ValueError.
C28_FixedIterations ==
    /\ FixedCount
    /\ (bc.niter >= 1 /\ pc = "bc_call") ~> (pc \in {"bc_post", "raised"})
    /\ [](pc = "bc_post" =>
            (bc.corr = Subtract(self_y, bc.z) /\ \E k \in DOMAIN bc.corr : ~IsNan(bc.corr[k])))
    /\ []((bc.niter >= 1 /\ pc = "raised") =>
            (bc.corr = Subtract(self_y, bc.z) /\ \A k \in DOMAIN bc.corr : IsNan(bc.corr[k])))

\* C28 witness: a call with niter = MaxIter has left the loop after MaxIter iterations
\* with a finite corrected signal
C28_Witness ==
    /\ pc = "bc_post" /\ bc.niter = MaxIter /\ bc.it = MaxIter
    /\ \A k \in DOMAIN bc.corr : IsFinite(bc.corr[k])

\* C29: in-place operations leave the spectrum unchanged on failure. No step of
\* EmsaSpectrum.smooth or EmsaSpectrum.baseline_correction changes x or metadata, and
\* the only step that changes y is the one that completes the operation; so when the
\* call raises (window_size < 1, niter < 1, an all-NaN corrected output) x, y and
\* metadata are what they were before the call.
C29_FailureAtomicity ==
    /\ [][(pc = "bc_call" \/ pc = "bc_loop" \/ pc = "bc_post") =>
            (self_xm' = self_xm /\ (pc' # "done" => self_y' = self_y))]_vars
    /\ [][(pc = "smooth" /\ sm.impl = "method") =>
            (self_xm' = self_xm /\ (sm'.pc # "done" => sm'.y = sm.y))]_vars
    /\ [](pc = "raised" => self_xm = FieldsFor(self_y))
    /\ []((pc = "smooth" /\ sm.impl = "method" /\ sm.pc = "raised") =>
            (sm.calls = 0 /\ WindowInvalid(sm.n) /\ self_xm = FieldsFor(sm.y)))

\* C29 witness: baseline_correction has raised after its iterations on an all-NaN
\* corrected output, the spectrum still holding a sample that is not NaN
C29_Witness ==
    /\ pc = "raised" /\ bc.niter >= 1 /\ bc.it = bc.niter
    /\ \A k \in DOMAIN bc.corr : IsNan(bc.corr[k])
    /\ \E k \in DOMAIN self_y : ~IsNan(self_y[k])
    /\ self_xm.x # <<>>

\* what zuy.spectrum.emsa.parse_msa_file makes of the file being parsed
OnEmsa == EmRun([NoMsa EXCEPT !.impl = "emsa", !.lines = msa.lines, !.pc = "read"])

\* C30 as claimed: the two MSA parsers agree. For every file on which
\* zuy.spectrum.io.parse_msa_file returns a Spectrum, zuy.spectrum.emsa.parse_msa_file
\* returns the same x, the same y and the same metadata mapping, header lines with
\* more than one '#' and files with a repeated '#SPECTRUM' line included.
C30_Original ==
    (pc = "msa" /\ msa.impl = "io" /\ msa.pc = "done") =>
        /\ OnEmsa.pc = "done"
        /\ OnEmsa.xs = msa.xs
        /\ OnEmsa.ys = msa.ys
        /\ OnEmsa.meta = msa.meta

====
